---- MODULE Spec2Model ----
(***************************************************************************)
(* Bank Account Simulator (src/main.cpp): the Account and Bank classes,     *)
(* the PIN credential, and the save/load routines, as a state machine.     *)
(*                                                                         *)
(* Strings are sequences of one-character strings.  Integers of the        *)
(* program keep a (scaled-down) width: long long is LLongMin..LLongMax,    *)
(* size_t is 0..2^SizeBits-1.  Signed overflow is undefined behaviour: the *)
(* builds of this program either wrap around (the plain add instruction)   *)
(* or abort the process (-ftrapv, a trapping sanitizer).  A process that   *)
(* was aborted or killed makes no further call.                            *)
(*                                                                         *)
(* accounts, nextId: the Bank.  file: accounts.tsv.  text: the line read   *)
(* from the terminal, or the text written to it.  amount: the cents that   *)
(* formatCents was given, on its own or by Check balance.  pc, session:    *)
(* where main is, and the account (an index into accounts, 0 for none)     *)
(* its Account* acc points to.  op, ret: the last call and its result.     *)
(***************************************************************************)
EXTENDS Integers, Sequences, FiniteSets, TLC

VARIABLES accounts, nextId, file, text, amount, pc, session, op, ret

vars == <<accounts, nextId, file, text, amount, pc, session, op, ret>>

(***************************************************************************)
(* Bounds of the model.                                                    *)
(***************************************************************************)
\* largest value of the scaled-down long long
LLongMax == 999
\* number of bits of the scaled-down size_t
SizeBits == 4
\* createAccount is explored up to this many accounts
MaxAccounts == 2
\* the ledger specification explores balances up to this value
MaxBalance == 1
\* longest text given to parseAmountCents
MaxText == 5

LLongMin == -LLongMax - 1
LLong == LLongMin..LLongMax
SizeMod == 2^SizeBits

(***************************************************************************)
(* Inputs.                                                                 *)
(***************************************************************************)
Digits == {"0", "1", "2", "3", "4", "5", "6", "7", "8", "9"}

Pin3 == <<"1", "2", "3">>
Pin4 == <<"1", "2", "3", "4">>
Pin9999 == <<"9", "9", "9", "9">>
\* a PIN other than Pin4 that hashPin maps to the value of Pin4 under every
\* salt.  size_t is finite and login takes any string, so every PIN has
\* such twins.
Pin2345 == <<"2", "3", "4", "5">>
PinAlpha == <<"1", "2", "a", "4">>
Pin12 == <<"1", "2", "3", "4", "5", "6", "7", "8", "9", "0", "1", "2">>
Pin13 == <<"1", "2", "3", "4", "5", "6", "7", "8", "9", "0", "1", "2", "3">>

\* PINs given to createAccount and setPin where the PIN rule is explored
Pins == {<<>>, Pin3, Pin4, PinAlpha, Pin12, Pin13}
\* PINs given to createAccount in the ledger specification
LedgerPins == {Pin3, Pin4}
\* PINs given to login
LoginPins == {Pin3, Pin4, Pin9999}
\* PINs typed at the login prompt of the shell
ShellPins == {Pin4, Pin9999}
\* PINs given to login in the session specification
SessionPins == LoginPins \cup {Pin2345}
\* owner names; the second one holds a tab
Owners == {<<"A">>, <<"B", "\t", "b">>}
\* owner names given to createAccount in the ledger specification
LedgerOwners == {<<"B", "\t", "b">>}
\* values random_device/mt19937_64 may hand out as a salt
Salts == {0, 5}
\* amounts given to deposit and withdraw in the ledger specification
Amounts == {-1, 0, 1}
\* amounts given to deposit and withdraw on the single account
AccountAmounts == {LLongMin, -1, 0, 1, 2, LLongMax - 1, LLongMax}
\* characters of the texts given to parseAmountCents
TextChars == {"-", ".", " ", "0", "1", "5", "a"}
\* texts given to parseAmountCents
Texts == UNION {[1..n -> TextChars] : n \in 0..MaxText}
\* ids given to login: those createAccount can hand out, and one more
LoginIds == 1001..(1001 + MaxAccounts)

(***************************************************************************)
(* Results of a call: a returned value, or a thrown exception.             *)
(***************************************************************************)
Return(v) == [type |-> "return", what |-> "", val |-> v]
Throw(t, w) == [type |-> t, what |-> w, val |-> 0]
Void == Return(0)

\* the process is running: its last call neither aborted nor crashed it
Alive == ret.type \notin {"abort", "signal"}

(***************************************************************************)
(* Characters and <string> functions                                       *)
(***************************************************************************)
\* character codes of the characters the model uses
CharCode(c) ==
    CASE c \in Digits -> 48 + (CHOOSE d \in 0..9 : ToString(d) = c)
      [] c = "a" -> 97
      [] c = "b" -> 98
      [] c = "A" -> 65
      [] c = "B" -> 66
      [] c = "\t" -> 9
      [] c = " " -> 32
      [] c = "-" -> 45
      [] c = "." -> 46
      [] c = "$" -> 36
      [] OTHER -> 63

isdigit(c) == c \in Digits

isspace(c) == c \in {" ", "\t", "\n"}

RECURSIVE to_string(_)
\* std::to_string of an unsigned value: its decimal digits
to_string(n) ==
    IF n < 10 THEN <<ToString(n)>>
    ELSE to_string(n \div 10) \o <<ToString(n % 10)>>

RECURSIVE SkipSpaces(_)
\* strtoll skips leading white space
SkipSpaces(s) == IF s # <<>> /\ isspace(Head(s)) THEN SkipSpaces(Tail(s)) ELSE s

RECURSIVE DigitPrefix(_)
\* the longest prefix of s made of decimal digits
DigitPrefix(s) ==
    IF s # <<>> /\ isdigit(Head(s)) THEN <<Head(s)>> \o DigitPrefix(Tail(s)) ELSE <<>>

RECURSIVE DecimalValue(_, _)
\* the number a sequence of decimal digits denotes, continuing from acc
DecimalValue(acc, ds) ==
    IF ds = <<>> THEN acc
    ELSE DecimalValue((10 * acc) + (CharCode(Head(ds)) - 48), Tail(ds))

\* std::stoll(s): white space, an optional sign, then the digits up to the
\* first other character; invalid_argument when there is no digit,
\* out_of_range when the value does not fit long long
stoll(s) ==
    LET a == SkipSpaces(s)
        signed == a # <<>> /\ Head(a) \in {"-", "+"}
        ds == DigitPrefix(IF signed THEN Tail(a) ELSE a)
        v == IF signed /\ Head(a) = "-" THEN -DecimalValue(0, ds) ELSE DecimalValue(0, ds)
    IN  IF ds = <<>> THEN Throw("invalid_argument", "stoll")
        ELSE IF v \notin LLong THEN Throw("out_of_range", "stoll")
        ELSE Return(v)

\* t.find(ch): the position of the first ch (from 1), 0 for npos
find(t, ch) ==
    IF \E k \in 1..Len(t) : t[k] = ch
    THEN CHOOSE k \in 1..Len(t) : t[k] = ch /\ \A j \in 1..(k - 1) : t[j] # ch
    ELSE 0

(***************************************************************************)
(* Money helpers (main.cpp:30-55)                                          *)
(***************************************************************************)
\* the value a wrapping build leaves where the exact result is x
Wrap(x) == ((x - LLongMin) % (LLongMax - LLongMin + 1)) + LLongMin

\* the result of a call in a build that traps on signed overflow
Abort == Throw("abort", "signed integer overflow")

\* the results of returning dollars * 100 + cents as a long long
centsOf(dollars, cents) ==
    IF dollars * 100 \in LLong /\ (dollars * 100) + cents \in LLong
    THEN {Return((dollars * 100) + cents)}
    ELSE {Return(Wrap((dollars * 100) + cents)), Abort}

\* parseAmountCents that rounds on the third fractional digit
parseAmountCentsRounds(s) ==
    LET t == SelectSeq(s, LAMBDA c : ~isspace(c))
        dot == find(t, ".")
    IN  IF t = <<>> THEN {Throw("invalid_argument", "empty amount")}
        ELSE IF dot = 0
        THEN LET dollars == stoll(t) IN
             IF dollars.type # "return" THEN {dollars} ELSE centsOf(dollars.val, 0)
        ELSE LET dollarsStr == SubSeq(t, 1, dot - 1)
                 rest == SubSeq(t, dot + 1, Len(t))
                 cut == IF Len(rest) > 2 THEN SubSeq(rest, 1, 2) ELSE rest
                 up == IF Len(rest) > 2 /\ rest[3] \in {"5", "6", "7", "8", "9"}
                       THEN 1 ELSE 0
                 centsStr == cut \o [k \in 1..(2 - Len(cut)) |-> "0"]
                 dollars == IF dollarsStr = <<>> THEN Return(0) ELSE stoll(dollarsStr)
                 cents == IF centsStr = <<>> THEN Return(0) ELSE stoll(centsStr)
                 rounded == cents.val + up
                 negated == IF dollars.val < 0 \/ (dollars.val = 0 /\ t[1] = "-")
                            THEN -rounded ELSE rounded
             IN  IF dollars.type # "return" THEN {dollars}
                 ELSE IF cents.type # "return" THEN {cents}
                 ELSE centsOf(dollars.val, IF t[1] = "-" THEN -negated ELSE negated)

\* the results of parseAmountCents(s)
parseAmountCents(s) ==
    LET t == SelectSeq(s, LAMBDA c : ~isspace(c))
        dot == find(t, ".")
    IN  IF t = <<>> THEN {Throw("invalid_argument", "empty amount")}
        ELSE IF dot = 0
        THEN LET dollars == stoll(t) IN
             IF dollars.type # "return" THEN {dollars} ELSE centsOf(dollars.val, 0)
        ELSE LET dollarsStr == SubSeq(t, 1, dot - 1)
                 rest == SubSeq(t, dot + 1, Len(t))
                 cut == IF Len(rest) > 2 THEN SubSeq(rest, 1, 2) ELSE rest
                 centsStr == cut \o [k \in 1..(2 - Len(cut)) |-> "0"]
                 dollars == IF dollarsStr = <<>> THEN Return(0) ELSE stoll(dollarsStr)
                 cents == IF centsStr = <<>> THEN Return(0) ELSE stoll(centsStr)
                 negated == IF dollars.val < 0 \/ (dollars.val = 0 /\ t[1] = "-")
                            THEN -cents.val ELSE cents.val
             IN  IF dollars.type # "return" THEN {dollars}
                 ELSE IF cents.type # "return" THEN {cents}
                 ELSE centsOf(dollars.val, IF t[1] = "-" THEN -negated ELSE negated)

\* long long division and remainder: the quotient is cut towards zero
Quot(a, b) == IF a >= 0 THEN a \div b ELSE -((-a) \div b)

Rem(a, b) == a - (b * Quot(a, b))

\* operator<< of a long long: a minus sign for a negative value, then the
\* digits
putLLong(n) == IF n < 0 THEN <<"-">> \o to_string(-n) ELSE to_string(n)

\* setw(2) << setfill('0'): a text shorter than two characters is filled on
\* the left
setw2(s) == [k \in 1..(2 - Len(s)) |-> "0"] \o s

\* the text written for the value the negation left in cents
formatText(neg, cents) ==
    (IF neg THEN <<"-">> ELSE <<>>) \o <<"$">> \o putLLong(Quot(cents, 100))
        \o <<".">> \o setw2(putLLong(Rem(cents, 100)))

\* the outcomes of formatCents(cents), each the text returned and how the
\* call ended.  -cents overflows for the least long long: the value wraps,
\* or the call is aborted.
formatCents(cents) ==
    LET neg == cents < 0 IN
    IF ~neg THEN {[text |-> formatText(neg, cents), ret |-> Void]}
    ELSE IF -cents \in LLong THEN {[text |-> formatText(neg, -cents), ret |-> Void]}
    ELSE {[text |-> formatText(neg, Wrap(-cents)), ret |-> Void],
          [text |-> <<>>, ret |-> Abort]}

(***************************************************************************)
(* hashPin (main.cpp:58-62)                                                *)
(***************************************************************************)
RECURSIVE XorBits(_, _, _)
XorBits(a, b, bits) ==
    IF bits = 0 THEN 0
    ELSE (((a % 2) + (b % 2)) % 2) + 2 * XorBits(a \div 2, b \div 2, bits - 1)

\* a ^ b on size_t
Xor(a, b) == XorBits(a, b, SizeBits)

RECURSIVE stdHashFrom(_, _)
stdHashFrom(h, s) ==
    IF s = <<>> THEN h
    ELSE stdHashFrom(((h * 31) + CharCode(Head(s))) % SizeMod, Tail(s))

\* std::hash<string>: an implementation-defined function of the characters
stdHash(s) == stdHashFrom(7, s)

hashPin(pin, salt) == Xor(stdHash(pin \o to_string(salt)), (salt * 2) % SizeMod)

(***************************************************************************)
(* class Account (main.cpp:65-104)                                         *)
(***************************************************************************)
\* verifyPin that leaves the salt out
verifyPinUnsalted(a, pin) == hashPin(pin, 0) = a.pinHash

verifyPin(a, pin) == hashPin(pin, a.salt) = a.pinHash

\* setPin with the upper limit of the length off by one
setPinShorter(a, pin) ==
    IF Len(pin) < 4 \/ Len(pin) >= 12 \/ ~(\A k \in 1..Len(pin) : isdigit(pin[k]))
    THEN [acc |-> a, ret |-> Throw("invalid_argument", "PIN must be 4-12 digits")]
    ELSE [acc |-> [a EXCEPT !.pinHash = hashPin(pin, a.salt)], ret |-> Void]

setPin(a, pin) ==
    IF Len(pin) < 4 \/ Len(pin) > 12 \/ ~(\A k \in 1..Len(pin) : isdigit(pin[k]))
    THEN [acc |-> a, ret |-> Throw("invalid_argument", "PIN must be 4-12 digits")]
    ELSE [acc |-> [a EXCEPT !.pinHash = hashPin(pin, a.salt)], ret |-> Void]

\* Account::Account(id, owner, pin), salt being the value drawn from the
\* random device; ret tells whether the constructor threw
NewAccount(id, owner, pin, salt) ==
    setPin([id |-> id, owner |-> owner, balance |-> 0, salt |-> salt, pinHash |-> 0], pin)

\* deposit adding to the balance before it looks at the amount
depositThenChecks(a, cents) ==
    IF cents <= 0
    THEN {[acc |-> [a EXCEPT !.balance = a.balance + cents],
           ret |-> Throw("invalid_argument", "Deposit must be positive")]}
    ELSE IF a.balance + cents \in LLong
    THEN {[acc |-> [a EXCEPT !.balance = a.balance + cents], ret |-> Void]}
    ELSE {[acc |-> [a EXCEPT !.balance = Wrap(a.balance + cents)], ret |-> Void],
          [acc |-> a, ret |-> Abort]}

\* the outcomes of a.deposit(cents)
deposit(a, cents) ==
    IF cents <= 0
    THEN {[acc |-> a, ret |-> Throw("invalid_argument", "Deposit must be positive")]}
    ELSE IF a.balance + cents \in LLong
    THEN {[acc |-> [a EXCEPT !.balance = a.balance + cents], ret |-> Void]}
    ELSE {[acc |-> [a EXCEPT !.balance = Wrap(a.balance + cents)], ret |-> Void],
          [acc |-> a, ret |-> Abort]}

\* withdraw refusing to empty the account
withdrawKeepsOne(a, cents) ==
    IF cents <= 0
    THEN {[acc |-> a, ret |-> Throw("invalid_argument", "Withdrawal must be positive")]}
    ELSE IF cents >= a.balance
    THEN {[acc |-> a, ret |-> Throw("runtime_error", "Insufficient funds")]}
    ELSE {[acc |-> [a EXCEPT !.balance = a.balance - cents], ret |-> Void]}

\* withdraw with its two checks in the other order
withdrawFundsFirst(a, cents) ==
    IF cents > a.balance
    THEN {[acc |-> a, ret |-> Throw("runtime_error", "Insufficient funds")]}
    ELSE IF cents <= 0
    THEN {[acc |-> a, ret |-> Throw("invalid_argument", "Withdrawal must be positive")]}
    ELSE {[acc |-> [a EXCEPT !.balance = a.balance - cents], ret |-> Void]}

\* the outcomes of a.withdraw(cents)
withdraw(a, cents) ==
    IF cents <= 0
    THEN {[acc |-> a, ret |-> Throw("invalid_argument", "Withdrawal must be positive")]}
    ELSE IF cents > a.balance
    THEN {[acc |-> a, ret |-> Throw("runtime_error", "Insufficient funds")]}
    ELSE IF a.balance - cents \in LLong
    THEN {[acc |-> [a EXCEPT !.balance = a.balance - cents], ret |-> Void]}
    ELSE {[acc |-> [a EXCEPT !.balance = Wrap(a.balance - cents)], ret |-> Void],
          [acc |-> a, ret |-> Abort]}

(***************************************************************************)
(* class Bank (main.cpp:107-160)                                           *)
(***************************************************************************)
\* nextId_ of a Bank that was just constructed
FirstId == 1001

\* createAccount that never advances the counter
createAccountSameId(accs, nid, owner, pin, salt) ==
    LET made == NewAccount(nid, owner, pin, salt) IN
    IF made.ret.type # "return"
    THEN [accounts |-> accs, nextId |-> nid, ret |-> made.ret]
    ELSE [accounts |-> Append(accs, made.acc), nextId |-> nid, ret |-> Return(nid)]

\* createAccount that takes the id from the counter before it constructs
createAccountCountsFirst(accs, nid, owner, pin, salt) ==
    LET made == NewAccount(nid, owner, pin, salt) IN
    IF made.ret.type # "return"
    THEN [accounts |-> accs, nextId |-> nid + 1, ret |-> made.ret]
    ELSE [accounts |-> Append(accs, made.acc), nextId |-> nid + 1, ret |-> Return(nid)]

\* Bank::createAccount: emplace_back constructs the Account at the end of
\* the vector (nothing is appended when the constructor throws), then the
\* counter is returned and advanced
createAccount(accs, nid, owner, pin, salt) ==
    LET made == NewAccount(nid, owner, pin, salt) IN
    IF made.ret.type # "return"
    THEN [accounts |-> accs, nextId |-> nid, ret |-> made.ret]
    ELSE [accounts |-> Append(accs, made.acc), nextId |-> nid + 1, ret |-> Return(nid)]

\* Bank::findById: the position of the first account with that id, 0 for nullptr
findById(accs, id) ==
    IF \E k \in 1..Len(accs) : accs[k].id = id
    THEN CHOOSE k \in 1..Len(accs) : accs[k].id = id /\ \A j \in 1..(k - 1) : accs[j].id # id
    ELSE 0

\* login that answers a wrong PIN differently from an unknown id
loginTellsWrongPin(accs, id, pin) ==
    LET acc == findById(accs, id) IN
    IF acc = 0 THEN 0
    ELSE IF ~verifyPin(accs[acc], pin) THEN -1
    ELSE acc

\* Bank::login: the position of the account, 0 for nullptr
login(accs, id, pin) ==
    LET acc == findById(accs, id) IN
    IF acc = 0 THEN 0
    ELSE IF ~verifyPin(accs[acc], pin) THEN 0
    ELSE acc

\* the file at the path: whether it exists, and its lines (each line the
\* sequence of its tab-separated fields)
NoFile == [exists |-> FALSE, lines |-> <<>>]
FileOf(lines) == [exists |-> TRUE, lines |-> lines]

\* std::replace(owner.begin(), owner.end(), '\t', ' ')
replaceTabs(owner) == [k \in 1..Len(owner) |-> IF owner[k] = "\t" THEN " " ELSE owner[k]]

RECURSIVE saveLines(_, _)
\* the loop of Bank::saveToFile: each pass computes the sanitized owner and
\* writes nothing to the stream
saveLines(accs, out) ==
    IF accs = <<>> THEN out
    ELSE LET owner == replaceTabs(Head(accs).owner) IN saveLines(Tail(accs), out)

\* the lines of the file after a saveToFile that could open it (ios::trunc)
saveToFile(accs) == saveLines(accs, <<>>)

RECURSIVE loadLines(_, _, _)
\* the getline loop of Bank::loadFromFile: its body is empty
loadLines(lines, accs, maxId) ==
    IF lines = <<>> THEN [accounts |-> accs, maxId |-> maxId]
    ELSE loadLines(Tail(lines), accs, maxId)

\* loadFromFile that takes a file it cannot open for an error
loadFromFileMissingThrows(accs, nid, f) ==
    IF ~f.exists
    THEN [accounts |-> accs, nextId |-> nid,
          ret |-> Throw("runtime_error", "cannot open file")]
    ELSE LET read == loadLines(f.lines, <<>>, 1000) IN
         [accounts |-> read.accounts, nextId |-> read.maxId + 1, ret |-> Return(1)]

\* Bank::loadFromFile on a bank holding accs and nid
loadFromFile(accs, nid, f) ==
    IF ~f.exists
    THEN [accounts |-> accs, nextId |-> nid, ret |-> Return(0)]
    ELSE LET read == loadLines(f.lines, <<>>, 1000) IN
         [accounts |-> read.accounts, nextId |-> read.maxId + 1, ret |-> Return(1)]

(***************************************************************************)
(* The operations as actions.  op names the last call, ret its result.     *)
(***************************************************************************)
\* files the program may find at its first start
InitialFiles ==
    { NoFile,
      FileOf(<<  <<"1001", "A", "5", "0", "3">>, <<"1002", "A">>  >>) }

\* `Bank bank;` of a starting process (main.cpp:201)
NewBank ==
    /\ accounts' = <<>>
    /\ nextId' = FirstId
    /\ op' = "Bank"
    /\ ret' = Void
    /\ UNCHANGED <<file, text, amount, pc, session>>

CreateAccount(owner, pin, salt) ==
    /\ Alive
    /\ Len(accounts) < MaxAccounts
    /\ LET r == createAccount(accounts, nextId, owner, pin, salt) IN
         /\ accounts' = r.accounts
         /\ nextId' = r.nextId
         /\ ret' = r.ret
    /\ op' = "createAccount"
    /\ UNCHANGED <<file, text, amount, pc, session>>

FindById(id) ==
    /\ Alive
    /\ op' = "findById"
    /\ ret' = Return(findById(accounts, id))
    /\ UNCHANGED <<accounts, nextId, file, text, amount, pc, session>>

Login(id, pin) ==
    /\ Alive
    /\ op' = "login"
    /\ ret' = Return(login(accounts, id, pin))
    /\ UNCHANGED <<accounts, nextId, file, text, amount, pc, session>>

ListAccounts ==
    /\ Alive
    /\ op' = "listAccounts"
    /\ ret' = Void
    /\ UNCHANGED <<accounts, nextId, file, text, amount, pc, session>>

SetPin(i, pin) ==
    /\ Alive
    /\ i \in 1..Len(accounts)
    /\ LET r == setPin(accounts[i], pin) IN
         /\ accounts' = [accounts EXCEPT ![i] = r.acc]
         /\ ret' = r.ret
    /\ op' = "setPin"
    /\ UNCHANGED <<nextId, file, text, amount, pc, session>>

Deposit(i, cents) ==
    /\ Alive
    /\ i \in 1..Len(accounts)
    /\ \E o \in deposit(accounts[i], cents) :
         /\ accounts' = [accounts EXCEPT ![i] = o.acc]
         /\ ret' = o.ret
    /\ op' = "deposit"
    /\ UNCHANGED <<nextId, file, text, amount, pc, session>>

Withdraw(i, cents) ==
    /\ Alive
    /\ i \in 1..Len(accounts)
    /\ \E o \in withdraw(accounts[i], cents) :
         /\ accounts' = [accounts EXCEPT ![i] = o.acc]
         /\ ret' = o.ret
    /\ op' = "withdraw"
    /\ UNCHANGED <<nextId, file, text, amount, pc, session>>

\* Bank::saveToFile: false when the stream cannot be opened; otherwise the
\* file is truncated, the loop runs, and control flows off the end of the
\* function without a return statement, which is undefined behaviour: the
\* caller sees some bool (g++ -O0), or the process is killed (g++ -O2 runs
\* into a segmentation fault)
SaveToFile ==
    /\ Alive
    /\ op' = "saveToFile"
    /\ \E opened \in BOOLEAN :
         IF ~opened
         THEN ret' = Return(0) /\ UNCHANGED file
         ELSE /\ file' = FileOf(saveToFile(accounts))
              /\ ret' \in {Return(0), Return(1), Throw("signal", "SIGSEGV")}
    /\ UNCHANGED <<accounts, nextId, text, amount, pc, session>>

LoadFromFile ==
    /\ Alive
    /\ op' = "loadFromFile"
    /\ LET r == loadFromFile(accounts, nextId, file) IN
         /\ accounts' = r.accounts
         /\ nextId' = r.nextId
         /\ ret' = r.ret
    /\ UNCHANGED <<file, text, amount, pc, session>>

(***************************************************************************)
(* The ledger: every operation of Bank and Account, on any account, in any *)
(* order, with process restarts.                                           *)
(***************************************************************************)
Init ==
    /\ accounts = <<>>
    /\ nextId = FirstId
    /\ file \in InitialFiles
    /\ text = <<>>
    /\ amount = 0
    /\ pc = "start"
    /\ session = 0
    /\ op = "Bank"
    /\ ret = Void

Next ==
    \/ NewBank
    \/ \E owner \in LedgerOwners, pin \in LedgerPins, salt \in Salts :
         CreateAccount(owner, pin, salt)
    \/ \E id \in LoginIds : FindById(id)
    \/ \E id \in LoginIds, pin \in LoginPins : Login(id, pin)
    \/ ListAccounts
    \/ \E i \in 1..MaxAccounts, cents \in Amounts :
         /\ i \in 1..Len(accounts)
         /\ accounts[i].balance + cents <= MaxBalance
         /\ Deposit(i, cents)
    \/ \E i \in 1..MaxAccounts, cents \in Amounts : Withdraw(i, cents)
    \/ SaveToFile
    \/ LoadFromFile

Spec == Init /\ [][Next]_vars

(***************************************************************************)
(* One session of the ledger: the Bank is neither saved, loaded nor built  *)
(* anew, and login is tried with more PINs.                                *)
(***************************************************************************)
NextSession ==
    \/ \E owner \in LedgerOwners, pin \in LedgerPins, salt \in Salts :
         CreateAccount(owner, pin, salt)
    \/ \E id \in LoginIds, pin \in SessionPins : Login(id, pin)
    \/ ListAccounts
    \/ \E i \in 1..MaxAccounts, cents \in Amounts :
         /\ i \in 1..Len(accounts)
         /\ accounts[i].balance + cents <= MaxBalance
         /\ Deposit(i, cents)
    \/ \E i \in 1..MaxAccounts, cents \in Amounts : Withdraw(i, cents)

\* the session starts on a newly built Bank; the file plays no part in it
InitSession == Init /\ file = NoFile

SpecSession == InitSession /\ [][NextSession]_vars

(***************************************************************************)
(* The shell (main.cpp:169-238): main builds and loads the Bank, then      *)
(* serves the main menu; a login that succeeds enters accountSession on    *)
(* the account returned.  pc is where main is, session the account of      *)
(* accountSession, text what the chosen branch wrote to the terminal (the  *)
(* menus themselves are left out).  Texts of the terminal:                 *)
(***************************************************************************)
TxtListHead ==
    <<"\n", "=", "=", "=", " ", "A", "c", "c", "o", "u", "n", "t", "s",
    " ", "(", "f", "o", "r", " ", "d", "e", "m", "o", ")", " ", "=", "=",
    "=", "\n">>

TxtId ==
    <<"I", "D", ":", " ">>

TxtOwner ==
    <<",", " ", "O", "w", "n", "e", "r", ":", " ">>

TxtListBalance ==
    <<",", " ", "B", "a", "l", "a", "n", "c", "e", ":", " ">>

TxtNone ==
    <<"(", "n", "o", "n", "e", ")", "\n">>

TxtBalance ==
    <<"B", "a", "l", "a", "n", "c", "e", ":", " ">>

TxtDeposited ==
    <<"D", "e", "p", "o", "s", "i", "t", "e", "d", ".", " ", "N", "e", "w",
    " ", "b", "a", "l", "a", "n", "c", "e", ":", " ">>

TxtWithdrawn ==
    <<"W", "i", "t", "h", "d", "r", "a", "w", "n", ".", " ", "N", "e", "w",
    " ", "b", "a", "l", "a", "n", "c", "e", ":", " ">>

TxtError ==
    <<"E", "r", "r", "o", "r", ":", " ">>

TxtDepositPositive ==
    <<"D", "e", "p", "o", "s", "i", "t", " ", "m", "u", "s", "t", " ", "b",
    "e", " ", "p", "o", "s", "i", "t", "i", "v", "e">>

TxtWithdrawalPositive ==
    <<"W", "i", "t", "h", "d", "r", "a", "w", "a", "l", " ", "m", "u", "s",
    "t", " ", "b", "e", " ", "p", "o", "s", "i", "t", "i", "v", "e">>

TxtInsufficient ==
    <<"I", "n", "s", "u", "f", "f", "i", "c", "i", "e", "n", "t", " ", "f",
    "u", "n", "d", "s">>

TxtLoggingOut ==
    <<"L", "o", "g", "g", "i", "n", "g", " ", "o", "u", "t", ".", ".", ".",
    "\n">>

TxtLoginFailed ==
    <<"L", "o", "g", "i", "n", " ", "f", "a", "i", "l", "e", "d", ".", " ",
    "C", "h", "e", "c", "k", " ", "I", "D", "/", "P", "I", "N", ".", "\n">>

TxtInvalidOption ==
    <<"I", "n", "v", "a", "l", "i", "d", " ", "o", "p", "t", "i", "o", "n",
    ".", "\n">>

TxtInvalidChoice ==
    <<"I", "n", "v", "a", "l", "i", "d", " ", "c", "h", "o", "i", "c", "e",
    ".", "\n">>

TxtGoodbye ==
    <<"G", "o", "o", "d", "b", "y", "e", "!", "\n">>

TxtNewline ==
    <<"\n">>

TxtCreated ==
    <<"A", "c", "c", "o", "u", "n", "t", " ", "c", "r", "e", "a", "t", "e",
    "d", "!", " ", "Y", "o", "u", "r", " ", "I", "D", " ", "i", "s", ":",
    " ">>

TxtCreateFailed ==
    <<"F", "a", "i", "l", "e", "d", " ", "t", "o", " ", "c", "r", "e", "a",
    "t", "e", " ", "a", "c", "c", "o", "u", "n", "t", ":", " ">>

TxtPinRule ==
    <<"P", "I", "N", " ", "m", "u", "s", "t", " ", "b", "e", " ", "4", "-",
    "1", "2", " ", "d", "i", "g", "i", "t", "s">>

\* e.what() of the exceptions of Account, as written to the terminal
whatText(r) ==
    CASE r.what = "Deposit must be positive" -> TxtDepositPositive
      [] r.what = "PIN must be 4-12 digits" -> TxtPinRule
      [] r.what = "Withdrawal must be positive" -> TxtWithdrawalPositive
      [] r.what = "Insufficient funds" -> TxtInsufficient
      [] OTHER -> <<>>

\* the text formatCents returns for cents when it returns
formatted(cents) == (CHOOSE r \in formatCents(cents) : r.ret = Void).text

RECURSIVE listLines(_)
\* the lines of Bank::listAccounts, one for each account
listLines(accs) ==
    IF accs = <<>> THEN <<>>
    ELSE TxtId \o to_string(Head(accs).id) \o TxtOwner \o Head(accs).owner
           \o TxtListBalance \o formatted(Head(accs).balance) \o TxtNewline
           \o listLines(Tail(accs))

\* the outcomes of Bank::listAccounts: it reads balanceCents() of every
\* account and writes it; formatCents may abort on the least long long
listAccounts(accs) ==
    {[text |-> TxtListHead \o listLines(accs) \o (IF accs = <<>> THEN TxtNone ELSE <<>>),
      ret |-> Void]}
    \cup {[text |-> <<>>, ret |-> Abort] :
             k \in {j \in 1..Len(accs) : Cardinality(formatCents(accs[j].balance)) > 1}}

\* a process starts: `Bank bank;` (main.cpp:201)
MainStart ==
    /\ pc = "exit" \/ ~Alive
    /\ accounts' = <<>>
    /\ nextId' = FirstId
    /\ session' = 0
    /\ pc' = "start"
    /\ text' = <<>>
    /\ op' = "Bank"
    /\ ret' = Void
    /\ UNCHANGED <<file, amount>>

\* bank.loadFromFile(DB); its result is dropped (main.cpp:203)
MainLoad ==
    /\ Alive
    /\ pc = "start"
    /\ LET r == loadFromFile(accounts, nextId, file) IN
         /\ accounts' = r.accounts
         /\ nextId' = r.nextId
         /\ ret' = r.ret
    /\ pc' = "menu"
    /\ text' = <<>>
    /\ op' = "loadFromFile"
    /\ UNCHANGED <<file, amount, session>>

\* choice 1 of the main menu (main.cpp:214-222)
MenuCreate(owner, pin, salt) ==
    /\ Alive
    /\ pc = "menu"
    /\ Len(accounts) < MaxAccounts
    /\ LET r == createAccount(accounts, nextId, owner, pin, salt) IN
         /\ accounts' = r.accounts
         /\ nextId' = r.nextId
         /\ ret' = r.ret
         /\ text' = IF r.ret.type = "return"
                    THEN TxtCreated \o to_string(r.ret.val) \o TxtNewline
                    ELSE TxtCreateFailed \o whatText(r.ret) \o TxtNewline
    /\ op' = "createAccount"
    /\ UNCHANGED <<file, amount, pc, session>>

\* the login branch entering accountSession on the account of the id,
\* whatever the PIN
MenuLoginById(id, pin) ==
    /\ Alive
    /\ pc = "menu"
    /\ LET k == findById(accounts, id) IN
         /\ ret' = Return(k)
         /\ session' = k
         /\ pc' = IF k = 0 THEN "menu" ELSE "session"
         /\ text' = IF k = 0 THEN TxtLoginFailed ELSE <<>>
    /\ op' = "login"
    /\ UNCHANGED <<accounts, nextId, file, amount>>

\* choice 2 of the main menu (main.cpp:223-228): accountSession is entered
\* on the account login returns; on nullptr the loop continues
MenuLogin(id, pin) ==
    /\ Alive
    /\ pc = "menu"
    /\ LET k == login(accounts, id, pin) IN
         /\ ret' = Return(k)
         /\ session' = k
         /\ pc' = IF k = 0 THEN "menu" ELSE "session"
         /\ text' = IF k = 0 THEN TxtLoginFailed ELSE <<>>
    /\ op' = "login"
    /\ UNCHANGED <<accounts, nextId, file, amount>>

\* choice 3 of the main menu (main.cpp:229-230)
MenuList ==
    /\ Alive
    /\ pc = "menu"
    /\ \E r \in listAccounts(accounts) : text' = r.text /\ ret' = r.ret
    /\ op' = "listAccounts"
    /\ UNCHANGED <<accounts, nextId, file, amount, pc, session>>

\* choice 4 of the main menu (main.cpp:231-233): the Bank is saved and the
\* loop is left; a process killed in saveToFile writes no farewell
MenuExit ==
    /\ Alive
    /\ pc = "menu"
    /\ \E opened \in BOOLEAN :
         IF ~opened
         THEN ret' = Return(0) /\ UNCHANGED file
         ELSE /\ file' = FileOf(saveToFile(accounts))
              /\ ret' \in {Return(0), Return(1), Throw("signal", "SIGSEGV")}
    /\ text' = IF ret'.type = "return" THEN TxtGoodbye ELSE <<>>
    /\ pc' = "exit"
    /\ op' = "saveToFile"
    /\ UNCHANGED <<accounts, nextId, amount, session>>

\* any other choice, in the main menu (main.cpp:234-236) or in the session
\* (main.cpp:191-193)
InvalidChoice ==
    /\ Alive
    /\ pc \in {"menu", "session"}
    /\ text' = IF pc = "menu" THEN TxtInvalidChoice ELSE TxtInvalidOption
    /\ op' = "promptInt"
    /\ ret' = Void
    /\ UNCHANGED <<accounts, nextId, file, amount, pc, session>>

\* choice 1 of accountSession (main.cpp:178-179)
SessionBalance ==
    /\ Alive
    /\ pc = "session"
    /\ amount' = accounts[session].balance
    /\ \E r \in formatCents(accounts[session].balance) :
         /\ ret' = r.ret
         /\ text' = IF r.ret = Void THEN TxtBalance \o r.text \o TxtNewline ELSE <<>>
    /\ op' = "balanceCents"
    /\ UNCHANGED <<accounts, nextId, file, pc, session>>

\* what accountSession writes after acc->deposit or acc->withdraw ended
\* with o: the new balance behind the words said, or the error caught at
\* main.cpp:194-196
sessionText(said, o) ==
    IF o.ret = Void THEN said \o formatted(o.acc.balance) \o TxtNewline
    ELSE IF o.ret.type \in {"abort", "signal"} THEN <<>>
    ELSE TxtError \o whatText(o.ret) \o TxtNewline

\* choice 2 of accountSession (main.cpp:180-183); cents is what
\* promptAmountCents returned
SessionDeposit(cents) ==
    /\ Alive
    /\ pc = "session"
    /\ \E o \in deposit(accounts[session], cents) :
         /\ accounts' = [accounts EXCEPT ![session] = o.acc]
         /\ ret' = o.ret
         /\ text' = sessionText(TxtDeposited, o)
    /\ op' = "deposit"
    /\ UNCHANGED <<nextId, file, amount, pc, session>>

\* choice 3 of accountSession (main.cpp:184-187)
SessionWithdraw(cents) ==
    /\ Alive
    /\ pc = "session"
    /\ \E o \in withdraw(accounts[session], cents) :
         /\ accounts' = [accounts EXCEPT ![session] = o.acc]
         /\ ret' = o.ret
         /\ text' = sessionText(TxtWithdrawn, o)
    /\ op' = "withdraw"
    /\ UNCHANGED <<nextId, file, amount, pc, session>>

\* choice 4 of accountSession (main.cpp:188-189): back in main, acc is gone
SessionLogout ==
    /\ Alive
    /\ pc = "session"
    /\ pc' = "menu"
    /\ session' = 0
    /\ text' = TxtLoggingOut
    /\ op' = "logout"
    /\ ret' = Void
    /\ UNCHANGED <<accounts, nextId, file, amount>>

NextShell ==
    \/ MainStart
    \/ MainLoad
    \/ \E owner \in LedgerOwners, pin \in LedgerPins, salt \in Salts :
         MenuCreate(owner, pin, salt)
    \/ \E id \in LoginIds, pin \in ShellPins : MenuLogin(id, pin)
    \/ MenuList
    \/ MenuExit
    \/ InvalidChoice
    \/ SessionBalance
    \/ \E cents \in Amounts :
         /\ pc = "session"
         /\ accounts[session].balance + cents <= MaxBalance
         /\ SessionDeposit(cents)
    \/ \E cents \in Amounts : SessionWithdraw(cents)
    \/ SessionLogout

SpecShell == Init /\ [][NextShell]_vars

(***************************************************************************)
(* One Account on its own: deposit and withdraw with every amount of the   *)
(* type.                                                                   *)
(***************************************************************************)
InitAccount ==
    /\ \E owner \in Owners, pin \in {Pin4}, salt \in Salts :
         accounts = <<NewAccount(FirstId, owner, pin, salt).acc>>
    /\ nextId = FirstId + 1
    /\ file = NoFile
    /\ text = <<>>
    /\ amount = 0
    /\ pc = "start"
    /\ session = 0
    /\ op = "Account"
    /\ ret = Void

NextAccount ==
    \/ \E cents \in AccountAmounts : Deposit(1, cents)
    \/ \E cents \in AccountAmounts : Withdraw(1, cents)

SpecAccount == InitAccount /\ [][NextAccount]_vars

(***************************************************************************)
(* The money helpers: a text is read and parsed.                           *)
(***************************************************************************)
InitMoney ==
    /\ accounts = <<>>
    /\ nextId = FirstId
    /\ file = NoFile
    /\ text \in Texts
    /\ amount = 0
    /\ pc = "start"
    /\ session = 0
    /\ op = "prompt"
    /\ ret = Void

ParseAmountCents ==
    /\ Alive
    /\ op \in {"prompt", "formatCents"}
    /\ op' = "parseAmountCents"
    /\ ret' \in parseAmountCents(text)
    /\ UNCHANGED <<accounts, nextId, file, text, amount, pc, session>>

NextMoney == ParseAmountCents

SpecMoney == InitMoney /\ [][NextMoney]_vars

(***************************************************************************)
(* The money helpers, the other way round: an amount is written by         *)
(* formatCents and the text written is parsed.                             *)
(***************************************************************************)
InitFormat ==
    /\ accounts = <<>>
    /\ nextId = FirstId
    /\ file = NoFile
    /\ text = <<>>
    /\ amount \in LLong
    /\ pc = "start"
    /\ session = 0
    /\ op = "amount"
    /\ ret = Void

FormatCents ==
    /\ Alive
    /\ op = "amount"
    /\ op' = "formatCents"
    /\ \E r \in formatCents(amount) : text' = r.text /\ ret' = r.ret
    /\ UNCHANGED <<accounts, nextId, file, amount, pc, session>>

NextFormat == FormatCents \/ ParseAmountCents

SpecFormat == InitFormat /\ [][NextFormat]_vars

(***************************************************************************)
(* The PIN rule: createAccount and setPin with well-formed and malformed   *)
(* PINs.                                                                   *)
(***************************************************************************)
NextPin ==
    \/ \E owner \in Owners, pin \in Pins, salt \in Salts : CreateAccount(owner, pin, salt)
    \/ \E i \in 1..MaxAccounts, pin \in Pins : SetPin(i, pin)

SpecPin == Init /\ [][NextPin]_vars

(***************************************************************************)
(* The failure kinds of the specification, as results of calls.            *)
(***************************************************************************)
IsInvalidAmount(r) ==
    /\ r.type = "invalid_argument"
    /\ r.what \in {"Deposit must be positive", "Withdrawal must be positive"}

IsInsufficientFunds(r) == r.type = "runtime_error" /\ r.what = "Insufficient funds"

IsInvalidPin(r) == r.type = "invalid_argument" /\ r.what = "PIN must be 4-12 digits"

(***************************************************************************)
(* Properties.                                                             *)
(***************************************************************************)

\* C1: whatever deposits and withdrawals are made on an account that starts
\* at balance 0, its balance is never negative.
C1_BalanceNonNegative == \A i \in 1..Len(accounts) : accounts[i].balance >= 0

\* C2: a withdrawal of a positive amount above the balance fails with
\* InsufficientFunds and leaves the account as it was; a withdrawal of a
\* positive amount up to the balance succeeds and takes exactly that amount
\* off the balance.
C2_WithdrawSufficiency ==
    [][\A cents \in AccountAmounts :
         (cents > 0 /\ Withdraw(1, cents)) =>
            IF cents > accounts[1].balance
            THEN IsInsufficientFunds(ret') /\ accounts' = accounts
            ELSE /\ ret' = Void
                 /\ accounts' = [accounts EXCEPT ![1].balance = accounts[1].balance - cents]
      ]_vars

\* a withdrawal above a positive balance was refused
C2_Witness ==
    /\ op = "withdraw"
    /\ IsInsufficientFunds(ret)
    /\ accounts[1].balance > 0

\* C3: a withdrawal of an amount <= 0 fails with InvalidAmount, never with
\* InsufficientFunds, whatever the balance, and leaves the account as it was.
C3_WithdrawInvalidFirst ==
    [][\A cents \in AccountAmounts :
         (cents <= 0 /\ Withdraw(1, cents)) =>
            /\ IsInvalidAmount(ret')
            /\ ~IsInsufficientFunds(ret')
            /\ accounts' = accounts
      ]_vars

\* a withdrawal of an amount <= 0 was refused on an account of balance 0
C3_Witness ==
    /\ op = "withdraw"
    /\ IsInvalidAmount(ret)
    /\ accounts[1].balance = 0

\* the ledger a starting process holds after loadFromFile, when the ledger
\* accs was saved to the file on exit
Reloaded(accs) == loadFromFile(<<>>, FirstId, FileOf(saveToFile(accs)))

\* C4: saving a ledger and loading the file into a fresh ledger yields the
\* same accounts in the same order, each with the same id, owner, balance
\* and credential material, so that login with each original PIN succeeds.
C4_RoundTrip == Reloaded(accounts).accounts = accounts

RECURSIVE MaxId(_)
MaxId(accs) ==
    IF accs = <<>> THEN 0
    ELSE LET m == MaxId(Tail(accs)) IN IF Head(accs).id > m THEN Head(accs).id ELSE m

\* C5: after a ledger with accounts was saved and loaded again, nextId is
\* the largest persisted id plus one, so no persisted id is handed out again.
C5_NoReuseAfterReload ==
    accounts # <<>> => Reloaded(accounts).nextId = MaxId(accounts) + 1

\* C6: the ids of the accounts of the ledger are pairwise distinct and
\* strictly increasing in insertion order, and nextId is greater than
\* every one of them.
C6_IdsIncrease ==
    /\ \A i, j \in 1..Len(accounts) : i < j => accounts[i].id < accounts[j].id
    /\ \A i \in 1..Len(accounts) : accounts[i].id < nextId

\* two accounts were created
C6_Witness == Len(accounts) >= 2 /\ op = "createAccount" /\ ret.type = "return"

\* C7: a createAccount that fails with InvalidPin leaves the accounts and
\* nextId as they were, and a createAccount that succeeds returns the value
\* nextId had, which is therefore the id the failed call would have used.
C7_FailedCreateKeepsLedger ==
    [][\A owner \in LedgerOwners, pin \in LedgerPins, salt \in Salts :
         CreateAccount(owner, pin, salt) =>
            IF IsInvalidPin(ret')
            THEN accounts' = accounts /\ nextId' = nextId
            ELSE /\ ret' = Return(nextId)
                 /\ Len(accounts') = Len(accounts) + 1
                 /\ accounts'[Len(accounts')].id = nextId
      ]_vars

\* a createAccount failed with InvalidPin on a ledger that holds an account
C7_Witness ==
    /\ op = "createAccount"
    /\ IsInvalidPin(ret)
    /\ Len(accounts) >= 1

\* the ledger accs without its k-th account
Without(accs, k) == SubSeq(accs, 1, k - 1) \o SubSeq(accs, k + 1, Len(accs))

\* C8: a login that is denied, because the id is unknown or because the PIN
\* fails verification, returns the one "not found" result and changes
\* nothing; and a login denied for its PIN has the very result it has on
\* the ledger that differs only in not holding that account.
C8_LoginDenialUniform ==
    [][\A id \in LoginIds, pin \in LoginPins :
         LET k == findById(accounts, id) IN
         (Login(id, pin) /\ (k = 0 \/ ~verifyPin(accounts[k], pin))) =>
            /\ ret' = Return(0)
            /\ UNCHANGED <<accounts, nextId, file>>
            /\ k # 0 => ret' = Return(login(Without(accounts, k), id, pin))
      ]_vars

\* a login was denied on a ledger that holds accounts
C8_Witness ==
    /\ op = "login"
    /\ ret = Return(0)
    /\ Len(accounts) >= 1
    /\ \E k \in 1..Len(accounts), pin \in LoginPins : ~verifyPin(accounts[k], pin)

\* the PIN rule: 4 to 12 characters, each a decimal digit
WellFormedPin(pin) ==
    /\ Len(pin) >= 4
    /\ Len(pin) <= 12
    /\ \A k \in 1..Len(pin) : pin[k] \in Digits

\* C9: createAccount and setPin fail with InvalidPin unless the PIN is 4 to
\* 12 decimal digits; with such a PIN they succeed, and the account that
\* createAccount appends has balance 0.
C9_PinRule ==
    [][/\ \A owner \in Owners, pin \in Pins, salt \in Salts :
            CreateAccount(owner, pin, salt) =>
               IF WellFormedPin(pin)
               THEN /\ ret'.type = "return"
                    /\ Len(accounts') = Len(accounts) + 1
                    /\ accounts'[Len(accounts')].balance = 0
               ELSE IsInvalidPin(ret') /\ accounts' = accounts
       /\ \A i \in 1..MaxAccounts, pin \in Pins :
            SetPin(i, pin) =>
               IF WellFormedPin(pin) THEN ret' = Void ELSE IsInvalidPin(ret')
      ]_vars

\* an account was created with a PIN of 12 digits
C9_Witness ==
    /\ op = "createAccount"
    /\ ret.type = "return"
    /\ accounts[Len(accounts)].balance = 0
    /\ accounts[Len(accounts)].pinHash = hashPin(Pin12, accounts[Len(accounts)].salt)

\* a minus sign, digits, a point, and one or two digits
IsMinusDotText(t) ==
    /\ Len(t) >= 4
    /\ t[1] = "-"
    /\ LET dot == find(t, ".") IN
         /\ dot >= 3
         /\ Len(t) - dot \in {1, 2}
         /\ \A k \in 2..Len(t) : k # dot => t[k] \in Digits

\* the minor units the text "-D.F" denotes
MinusDotValue(t) ==
    LET dot == find(t, ".")
        D == DecimalValue(0, SubSeq(t, 2, dot - 1))
        F == DecimalValue(0, SubSeq(t, dot + 1, Len(t)))
    IN  -((100 * D) + (IF Len(t) - dot = 1 THEN 10 * F ELSE F))

\* C10: parseAmountCents applies a leading minus sign to the whole value:
\* "-D.F" parses to -(100*D + F in cents), so "-0.50" parses to -50.
C10_MinusSignOnWhole ==
    (op = "parseAmountCents" /\ IsMinusDotText(text) /\ MinusDotValue(text) \in LLong)
        => ret = Return(MinusDotValue(text))

\* C11: every amount m of the long long range, negative, zero or positive,
\* written by formatCents (with its "$") and then parsed by parseAmountCents,
\* comes back as m
C11_MoneyRoundTrip == op = "parseAmountCents" => ret = Return(amount)

\* C12: deposit(amount) with amount <= 0 fails with InvalidAmount and leaves
\* the balance as it was; with any amount > 0 it succeeds and the balance
\* afterwards is the balance before plus the amount, whatever the sum is,
\* also when the sum is beyond the long long range
C12_DepositAddsExactly ==
    [][\A cents \in AccountAmounts :
         Deposit(1, cents) =>
            IF cents <= 0
            THEN IsInvalidAmount(ret') /\ accounts' = accounts
            ELSE /\ ret' = Void
                 /\ accounts'[1].balance = accounts[1].balance + cents
      ]_vars

\* every step keeps each account of the ledger in its place, with its id,
\* and keeps what login answers for that id and each PIN
LoginAnswersKept ==
    \/ accounts' = accounts
    \/ \A k \in 1..Len(accounts), pin \in SessionPins :
          /\ Len(accounts') >= k
          /\ accounts'[k].id = accounts[k].id
          /\ login(accounts', accounts[k].id, pin) = login(accounts, accounts[k].id, pin)

C14_LoadMissingFile ==
    [][/\ (op = "Bank" /\ ~file.exists /\ LoadFromFile) =>
            /\ ret'.type = "return"
            /\ accounts' = <<>>
            /\ nextId' = FirstId
       /\ \A owner \in LedgerOwners, pin \in LedgerPins, salt \in Salts :
            ( /\ op = "loadFromFile"
              /\ ~file.exists
              /\ accounts = <<>>
              /\ CreateAccount(owner, pin, salt)
              /\ ret'.type = "return" ) =>
               /\ ret' = Return(FirstId)
               /\ accounts'[1].id = FirstId
      ]_vars

\* a Bank was loaded from a file that does not exist
C14_Witness ==
    /\ op = "loadFromFile"
    /\ ~file.exists
    /\ ret.type = "return"
    /\ accounts = <<>>
    /\ nextId = FirstId

\* the text t, its white space taken out, is empty or is not an optional
\* leading minus sign followed by digits with at most one decimal point
\* among them
IsMalformedAmount(t) ==
    LET u == SelectSeq(t, LAMBDA c : ~isspace(c))
        body == IF u # <<>> /\ Head(u) = "-" THEN Tail(u) ELSE u
    IN  \/ u = <<>>
        \/ \E k \in 1..Len(body) : ~isdigit(body[k]) /\ body[k] # "."
        \/ Cardinality({k \in 1..Len(body) : body[k] = "."}) > 1

\* C15: parseAmountCents fails with an invalid-argument error, and returns
\* no value, for every text that once its white space is taken out is empty
\* or holds a character other than an optional leading minus sign, digits
\* and one decimal point
C15_MalformedAmountRefused ==
    (op = "parseAmountCents" /\ IsMalformedAmount(text))
        => ret.type = "invalid_argument"

\* C16: loadFromFile of a file that holds a line which is not five
\* tab-separated fields ends in an error; it never reports success
C16_MalformedLineRefused ==
    ( /\ op = "loadFromFile"
      /\ file.exists
      /\ \E k \in 1..Len(file.lines) : Len(file.lines[k]) # 5 )
        => ret.type # "return"

\* the text t without its white space
Stripped(t) == SelectSeq(t, LAMBDA c : ~isspace(c))

\* the characters of t after its first decimal point, when t has a point
\* and they are all digits; <<>> otherwise
FractionDigits(t) ==
    LET u == Stripped(t)
        dot == find(u, ".")
        frac == SubSeq(u, dot + 1, Len(u))
    IN  IF dot > 0 /\ \A k \in 1..Len(frac) : isdigit(frac[k]) THEN frac ELSE <<>>

\* t cut after the second character that follows its first decimal point
CutFraction(t) == LET u == Stripped(t) IN SubSeq(u, 1, find(u, ".") + 2)

\* t is digits, a decimal point and one digit
IsTenthsText(t) ==
    LET dot == find(t, ".") IN
    /\ dot > 1
    /\ Len(t) = dot + 1
    /\ \A k \in 1..Len(t) : k # dot => isdigit(t[k])

TenthsValue(t) ==
    LET dot == find(t, ".") IN
    (100 * DecimalValue(0, SubSeq(t, 1, dot - 1))) + (10 * DecimalValue(0, <<t[Len(t)]>>))

\* C17: parseAmountCents truncates the fraction and does not round: a text
\* with three or more fractional digits has the result of the text cut to
\* its first two fractional digits ("1.155" as "1.15", 115); a single
\* fractional digit counts as tenths: the text has the result of the text
\* with a 0 appended, and "D.F" gives 100*D + 10*F ("1.5" gives 150)
C17_FractionTruncated ==
    op = "parseAmountCents" =>
       /\ Len(FractionDigits(text)) >= 3 =>
             /\ ret \in parseAmountCents(CutFraction(text))
             /\ parseAmountCents(text) = parseAmountCents(CutFraction(text))
       /\ Len(FractionDigits(text)) = 1 =>
             /\ ret \in parseAmountCents(Stripped(text) \o <<"0">>)
             /\ parseAmountCents(text) = parseAmountCents(Stripped(text) \o <<"0">>)
       /\ (IsTenthsText(text) /\ TenthsValue(text) \in LLong) =>
             ret = Return(TenthsValue(text))

\* "1.155" was parsed to 115: the third fractional digit, a 5, was dropped
C17_Witness ==
    /\ op = "parseAmountCents"
    /\ text = <<"1", ".", "1", "5", "5">>
    /\ Len(FractionDigits(text)) = 3
    /\ ret = Return(115)

\* the step keeps every account of the ledger, in its place, as it is
AccountsKept ==
    \A k \in 1..Len(accounts) : Len(accounts') >= k /\ accounts'[k] = accounts[k]

\* C18: the balance of an account changes only by a deposit or withdraw on
\* that account that succeeds.  createAccount, findById, login,
\* listAccounts and saveToFile leave the balance, id, owner and credential
\* of every account as they are; so does a deposit or withdraw that fails;
\* a deposit or withdraw on one account leaves every other account as it
\* is and changes nothing but the balance of its own; and deposit and
\* withdraw leave nextId as it is.
C18_BalanceFrame ==
    [][/\ ( \/ \E owner \in LedgerOwners, pin \in LedgerPins, salt \in Salts :
                 CreateAccount(owner, pin, salt)
            \/ \E id \in LoginIds : FindById(id)
            \/ \E id \in LoginIds, pin \in LoginPins : Login(id, pin)
            \/ ListAccounts
            \/ SaveToFile ) => AccountsKept
       /\ \A i \in 1..MaxAccounts, cents \in Amounts :
            (Deposit(i, cents) \/ Withdraw(i, cents)) =>
               /\ nextId' = nextId
               /\ Len(accounts') = Len(accounts)
               /\ \A k \in 1..Len(accounts) : k # i => accounts'[k] = accounts[k]
               /\ accounts'[i] = [accounts[i] EXCEPT !.balance = accounts'[i].balance]
               /\ ret'.type # "return" => accounts'[i] = accounts[i]
      ]_vars

\* a deposit was made to the second account while the first one holds
\* nothing
C18_Witness ==
    /\ op = "deposit"
    /\ ret = Void
    /\ Len(accounts) >= 2
    /\ accounts[1].balance = 0
    /\ accounts[2].balance > 0

\* the accounts the step deposits to or withdraws from
MoneyMoved ==
    IF op' \in {"deposit", "withdraw"} THEN {session} ELSE {}

\* the accounts whose balance the step reads in accountSession: Check
\* balance, and the new balance written after a deposit or withdrawal
SessionReads ==
    IF op' = "balanceCents" \/ (op' \in {"deposit", "withdraw"} /\ ret' = Void)
    THEN {session} ELSE {}

\* the accounts whose balance the step reads in Bank::listAccounts
\* (main.cpp:131): every account of the Bank
ListReads == IF op' = "listAccounts" THEN 1..Len(accounts) ELSE {}

\* accountSession is entered by a login that succeeds, on the account that
\* login returned, and by nothing else; a login that fails stays in the main
\* menu; the session stays on its account until Logout, which leads to the
\* main menu; and login and Logout move no money
SessionBrackets ==
    /\ \A id \in LoginIds, pin \in ShellPins :
         (op' = "login" /\ MenuLogin(id, pin)) =>
            LET k == login(accounts, id, pin) IN
            /\ ret' = Return(k)
            /\ session' = k
            /\ pc' = IF k = 0 THEN "menu" ELSE "session"
            /\ k # 0 => accounts[k].id = id /\ verifyPin(accounts[k], pin)
            /\ accounts' = accounts
    /\ (pc # "session" /\ pc' = "session") =>
          \E id \in LoginIds, pin \in ShellPins : MenuLogin(id, pin)
    /\ (pc = "session" /\ pc' = "session") => session' = session
    /\ (pc = "session" /\ pc' # "session") =>
          /\ SessionLogout
          /\ pc' = "menu"
          /\ session' = 0
          /\ accounts' = accounts

\* the step works on the accounts of the set S only inside accountSession
\* and only on the account of the session, and changes no other account
OnlyInSession(S) ==
    S # {} =>
       /\ pc = "session"
       /\ pc' = "session"
       /\ session \in 1..Len(accounts)
       /\ S = {session}
       /\ \A k \in 1..Len(accounts) : k # session => accounts'[k] = accounts[k]

\* a step taken outside accountSession changes the balance of no account
\* that the Bank still holds after it
NoMoneyMovedOutside ==
    pc # "session" =>
       \A k \in 1..Len(accounts) :
          Len(accounts') >= k => accounts'[k].balance = accounts[k].balance

\* C19 as stated: every deposit, withdraw or balance read on an account
\* happens between a login that succeeded for that account and the Logout
\* that follows; after a login that fails the program is in the main menu
\* and has worked on no account, and after Logout it works on none until
\* the next login that succeeds
C19_SessionGating ==
    [][/\ SessionBrackets
       /\ OnlyInSession(MoneyMoved \cup SessionReads \cup ListReads)
       /\ NoMoneyMovedOutside
      ]_vars

\* C19, amended: every deposit, withdraw or Check balance on an account
\* happens between a login that succeeded for that account and the Logout
\* that follows; after a login that fails the program is in the main menu,
\* and after Logout it is there too, where until the next login that
\* succeeds no account is deposited to, withdrawn from or checked; but List
\* accounts of the main menu reads the balance of every account with no
\* login, and changes none
C19_SessionGatingButList ==
    [][/\ SessionBrackets
       /\ OnlyInSession(MoneyMoved \cup SessionReads)
       /\ ListReads # {} => pc = "menu" /\ pc' = "menu" /\ accounts' = accounts
       /\ NoMoneyMovedOutside
      ]_vars

\* in a session on the second account money was deposited to it, after a
\* session on the first account, closed by Logout, had deposited to that one
C19_Witness ==
    /\ pc = "session"
    /\ session = 2
    /\ op = "deposit"
    /\ ret = Void
    /\ accounts[1].balance > 0
    /\ accounts[2].balance > 0

====
